---- MODULE Spec2Model ----
(***************************************************************************)
(* A model of src/util/presence/devHelper.ts: the Presence bridge a page   *)
(* script uses to report its activity and read its settings, and the       *)
(* iFrame bridge.                                                          *)
(*                                                                         *)
(* JavaScript values are written as strings holding their literal          *)
(* ("false", "0", "''", "'x'", "undefined"), so that values of different   *)
(* JavaScript types can be compared.                                       *)
(***************************************************************************)
EXTENDS Naturals, Sequences, FiniteSets, TLC

VARIABLES
    storage,          \* chrome.storage.local: key -> persisted collection
    metadata,         \* this.metadata (PreMiD_Metadata), fixed at construction
    gs,               \* the getSetting call in flight and its promise
    hs,               \* the hideSetting/showSetting call in flight and its promise
    internalPresence, \* this.internalPresence
    trayTitle,        \* this.trayTitle
    playback,         \* this.playback
    sent,             \* the PreMiD_UpdatePresence events dispatched on window
    trace,            \* the calls made on the bridge and the events delivered to it
    hostListening,    \* whether the host listens to PreMiD_UpdatePresence
    hostSeen,         \* how many PreMiD_UpdatePresence events the host received
    _events,          \* this._events of the Presence and of the iFrame bridge
    listeners,        \* the listeners on(...) added, in the order of addition
    invoked,          \* the last call of on(...), or the last event dispatched
                      \* and the callbacks it invoked, in order
    calls,            \* the getStrings/getPageletiable/getUrl calls made, each
                      \* with its promise
    registered,       \* the reply listeners on window and document, in the
                      \* order of addition
    scripts,          \* the calls whose injected script element is in the
                      \* document
    requests,         \* the requests sent: events dispatched, port messages
    delivery          \* the last reply event dispatched and the calls whose
                      \* listener it invoked, in order

vars == <<storage, metadata, gs, hs, internalPresence, trayTitle, playback,
          sent, trace, hostListening, hostSeen, _events, listeners, invoked,
          calls, registered, scripts, requests, delivery>>

settingsVars == <<storage, metadata, gs, hs>>
activityVars == <<internalPresence, trayTitle, playback, sent, trace,
                  hostListening, hostSeen>>
eventVars == <<_events, listeners, invoked>>
requestVars == <<calls, registered, scripts, requests, delivery>>

(***************************************************************************)
(* Bounds of the model.                                                    *)
(***************************************************************************)
MaxRecords == 2     \* records in a persisted collection
MaxDeclared == 1    \* descriptors in metadata.settings
MaxIds == 2         \* ids in the list given to hideSetting/showSetting
MaxOps == 3         \* calls and events in a trace of the activity bridge
MaxOn == 3          \* listeners that calls of on(...) add
MaxCalls == 2       \* calls of getStrings, getPageletiable and getUrl

(***************************************************************************)
(* JavaScript values.                                                      *)
(***************************************************************************)
Undefined == "undefined"

\* The values the host persists for a setting (string | number | boolean).
PValues == {"false", "0", "''", "'x'"}

\* The default a descriptor declares: value?: string | number | boolean.
DValues == {"'d'", "false", Undefined}

\* Setting ids: two names, and "0", which is also an array index.
Ids == {"a", "b", "0"}

\* The ids of the records the host persists and the metadata declares.
RecordIds == {"a", "b"}

\* The canonical array-index strings among Ids, with the index each denotes.
IndexOf(key) == IF key = "0" THEN 0 ELSE 1

IsIndexKey(key) == key \in {"0"}

\* arr[key] of a JavaScript array for a string key: the element at that
\* index when key is an index string in range, undefined otherwise.
\* (Names of Array.prototype are not among Ids.)
HasProperty(arr, key) == IsIndexKey(key) /\ IndexOf(key) < Len(arr)

GetProperty(arr, key) == arr[IndexOf(key) + 1]

\* Sequences over S of length at most n.
SeqUpTo(S, n) == UNION {[1..k -> S] : k \in 0..n}

(***************************************************************************)
(* The metadata and the persisted storage.                                 *)
(***************************************************************************)
Service == "svc"

OtherService == "other"

\* `pSettings_${this.metadata.service}`
StorageKey(service) == "pSettings_" \o service

Keys == {StorageKey(Service), StorageKey(OtherService)}

\* Metadata.settings?: an optional array of descriptors.
Descriptors == [id : RecordIds, value : DValues]

Metadatas ==
    {[service |-> Service, hasSettings |-> FALSE, settings |-> <<>>]}
    \cup {[service |-> Service, hasSettings |-> TRUE, settings |-> s] :
            s \in SeqUpTo(Descriptors, MaxDeclared)}

\* Array.prototype.find(s => s.id === setting): the index of the first record
\* with that id, 0 when there is none (find returns undefined).
RECURSIVE FindFrom(_, _, _)
FindFrom(coll, id, i) ==
    IF i > Len(coll) THEN 0
    ELSE IF coll[i].id = id THEN i
    ELSE FindFrom(coll, id, i + 1)

find(coll, id) == FindFrom(coll, id, 1)

(***************************************************************************)
(* getSetting                                                              *)
(***************************************************************************)
\* The settling of getSetting, broken so that it tests the truthiness of the
\* result: if (res) resolve(res); else reject(res);
SettleMutant(res) ==
    IF res \notin {Undefined, "false", "0", "''"}
    THEN [state |-> "resolved", value |-> res, threw |-> FALSE]
    ELSE [state |-> "rejected", value |-> res, threw |-> FALSE]

\* if (res !== undefined) resolve(res); else reject(res);
Settle(res) ==
    IF res # Undefined
    THEN [state |-> "resolved", value |-> res, threw |-> FALSE]
    ELSE [state |-> "rejected", value |-> res, threw |-> FALSE]

\* The storage callback of getSetting on the collection read: how the promise
\* is settled, or that the callback threw (reading a property of undefined)
\* and left it pending.
getSettingCallback(coll, md, setting) ==
    LET i == find(coll, setting) IN
    IF i # 0 THEN Settle(coll[i].value)
    ELSE IF ~md.hasSettings
         THEN [state |-> "pending", value |-> Undefined, threw |-> TRUE]
    ELSE IF HasProperty(md.settings, setting)
         THEN Settle(GetProperty(md.settings, setting).value)
    ELSE Settle(Undefined)

GsIdle == [pc |-> "idle", setting |-> "a", state |-> "pending",
           value |-> Undefined, threw |-> FALSE]

\* getSetting(setting): a new promise; the storage read is requested.
getSetting(setting) ==
    /\ gs.pc \in {"idle", "returned"}
    /\ gs' = [pc |-> "reading", setting |-> setting, state |-> "pending",
              value |-> Undefined, threw |-> FALSE]
    /\ UNCHANGED <<storage, metadata, hs>>
    /\ UNCHANGED <<activityVars, eventVars, requestVars>>

\* chrome.storage.local.get returns: the callback of getSetting runs.
getSettingReturn ==
    /\ gs.pc = "reading"
    /\ LET out == getSettingCallback(storage[StorageKey(metadata.service)],
                                     metadata, gs.setting)
       IN gs' = [pc |-> "returned", setting |-> gs.setting,
                 state |-> out.state, value |-> out.value, threw |-> out.threw]
    /\ UNCHANGED <<storage, metadata, hs>>
    /\ UNCHANGED <<activityVars, eventVars, requestVars>>

(***************************************************************************)
(* hideSetting / showSetting                                               *)
(***************************************************************************)
\* The settings argument: string | Array<string>.
HsInputs ==
    {[isArray |-> FALSE, id |-> id] : id \in Ids}
    \cup {[isArray |-> TRUE, ids |-> l] : l \in SeqUpTo(Ids, MaxIds)}

\* if (!Array.isArray(settings)) settings = [settings];
Normalize(settings) ==
    IF settings.isArray THEN settings.ids ELSE <<settings.id>>

\* `Setting "${setting}" does not exist.`
ErrorMessage(setting) == "Setting \"" \o setting \o "\" does not exist."

\* The forEach of hideSetting/showSetting, broken so that it stops at the
\* first id that is not found.
RECURSIVE forEachMutant(_, _, _, _)
forEachMutant(coll, errors, list, hidden) ==
    IF list = <<>> THEN [storageSettings |-> coll, errors |-> errors]
    ELSE LET i == find(coll, Head(list)) IN
         IF i = 0
         THEN [storageSettings |-> coll,
               errors |-> Append(errors, ErrorMessage(Head(list)))]
         ELSE forEachMutant([coll EXCEPT ![i].hidden = hidden], errors,
                            Tail(list), hidden)

\* settings.forEach(setting => ...): each id is looked up in the collection
\* read; the first record with that id gets the hidden flag, an id with no
\* record gets an error message.
RECURSIVE forEach(_, _, _, _)
forEach(coll, errors, list, hidden) ==
    IF list = <<>> THEN [storageSettings |-> coll, errors |-> errors]
    ELSE LET i == find(coll, Head(list)) IN
         IF i = 0
         THEN forEach(coll, Append(errors, ErrorMessage(Head(list))),
                      Tail(list), hidden)
         ELSE forEach([coll EXCEPT ![i].hidden = hidden], errors,
                      Tail(list), hidden)

\* settingToHide.hidden = true / settingToShow.hidden = false
HiddenFlag(op) == op = "hideSetting"

\* hideSetting(settings) or showSetting(settings): a new promise; the storage
\* read is requested.
hideShowSetting(op, settings) ==
    /\ hs.pc \in {"idle", "done"}
    /\ hs' = [pc |-> "reading", op |-> op, settings |-> settings,
              storageSettings |-> <<>>, errors |-> <<>>, state |-> "pending"]
    /\ UNCHANGED <<storage, metadata, gs>>
    /\ UNCHANGED <<activityVars, eventVars, requestVars>>

hideSetting(settings) == hideShowSetting("hideSetting", settings)

showSetting(settings) == hideShowSetting("showSetting", settings)

\* chrome.storage.local.get returns: the callback patches the collection it
\* was given, requests the write and, if there are errors, rejects at once.
hideShowReturn ==
    /\ hs.pc = "reading"
    /\ LET out == forEach(storage[StorageKey(metadata.service)], <<>>,
                          Normalize(hs.settings), HiddenFlag(hs.op))
       IN hs' = [hs EXCEPT
                   !.pc = "writing",
                   !.storageSettings = out.storageSettings,
                   !.errors = out.errors,
                   !.state = IF Len(out.errors) > 0 THEN "rejected"
                             ELSE "pending"]
    /\ UNCHANGED <<storage, metadata, gs>>
    /\ UNCHANGED <<activityVars, eventVars, requestVars>>

\* The write of hideSetting/showSetting, broken so that it patches the
\* collection as it is at the time of the write instead of writing the one
\* it read.
hideShowWrittenPatching ==
    /\ hs.pc = "writing"
    /\ storage' = [storage EXCEPT
                     ![StorageKey(metadata.service)] =
                         forEach(@, <<>>, Normalize(hs.settings),
                                 HiddenFlag(hs.op)).storageSettings]
    /\ hs' = [hs EXCEPT
                !.pc = "done",
                !.storageSettings = <<>>,
                !.state = IF hs.state = "pending" THEN "resolved" ELSE @]
    /\ UNCHANGED <<metadata, gs>>
    /\ UNCHANGED <<activityVars, eventVars, requestVars>>

\* The write of hideSetting/showSetting, broken so that it replaces the whole
\* storage by the object it read.
hideShowWrittenWhole ==
    /\ hs.pc = "writing"
    /\ storage' = [k \in Keys |->
                     IF k = StorageKey(metadata.service)
                     THEN hs.storageSettings ELSE <<>>]
    /\ hs' = [hs EXCEPT
                !.pc = "done",
                !.storageSettings = <<>>,
                !.state = IF hs.state = "pending" THEN "resolved" ELSE @]
    /\ UNCHANGED <<metadata, gs>>
    /\ UNCHANGED <<activityVars, eventVars, requestVars>>

\* chrome.storage.local.set completes: the object read, as patched, replaces
\* the collection under the service's key, and the callback (resolve) runs.
hideShowWritten ==
    /\ hs.pc = "writing"
    /\ storage' = [storage EXCEPT
                     ![StorageKey(metadata.service)] = hs.storageSettings]
    /\ hs' = [hs EXCEPT
                !.pc = "done",
                !.storageSettings = <<>>,
                !.state = IF hs.state = "pending" THEN "resolved" ELSE @]
    /\ UNCHANGED <<metadata, gs>>
    /\ UNCHANGED <<activityVars, eventVars, requestVars>>

(***************************************************************************)
(* The activity: setActivity, clearActivity, setTrayTitle, getActivity and *)
(* the PreMiD_TabPriority listener the constructor registers.              *)
(***************************************************************************)
\* presenceOptions.clientId
ClientId == "clientId"

\* {}
EmptyObject == [f \in {} |-> Undefined]

\* presenceData objects: every field is optional.
Snapshots ==
    {EmptyObject, [state |-> "'s'"], [state |-> "'s'", details |-> "'d'"]}

\* The arguments a call of setActivity may give: none, the presenceData, or
\* the presenceData and the playback flag.
SetActivityArgs ==
    {<<>>} \cup {<<d>> : d \in Snapshots}
    \cup {<<d, b>> : d \in Snapshots, b \in BOOLEAN}

\* The arguments a call of setTrayTitle may give: none, or the title.
SetTrayTitleArgs == {<<>>, <<"'t'">>}

\* The detail of a PreMiD_TabPriority event.
TabPriorityDetails == BOOLEAN

\* The detail clearActivity sends.
ClearPayload ==
    [presenceData |-> EmptyObject, playback |-> FALSE, hidden |-> TRUE]

\* sendData(data): a PreMiD_UpdatePresence event is dispatched on window; the
\* host receives it if it is listening.
sendData(data) ==
    /\ sent' = Append(sent, data)
    /\ hostSeen' = IF hostListening THEN hostSeen + 1 ELSE hostSeen

\* The entry a call or event adds to the trace, with the index in sent of
\* the event it dispatched (0: none).
Logged(op, args, n) ==
    /\ Len(trace) < MaxOps
    /\ trace' = Append(trace, [op |-> op, args |-> args, n |-> n])

\* Object.assign(this.internalPresence, presenceData): the fields of y, and
\* those of x that y does not have.
Merged(x, y) ==
    [f \in DOMAIN x \cup DOMAIN y |-> IF f \in DOMAIN y THEN y[f] ELSE x[f]]

\* The body of setActivity, broken so that it merges the new presenceData
\* into the stored one.
setActivityMerging(args) ==
    /\ internalPresence' =
           Merged(internalPresence,
                  IF Len(args) >= 1 THEN args[1] ELSE EmptyObject)
    /\ playback' = IF Len(args) >= 2 THEN args[2] ELSE TRUE
    /\ sendData([clientId |-> ClientId,
                 presenceData |-> internalPresence',
                 trayTitle |-> trayTitle,
                 playback |-> playback'])
    /\ UNCHANGED trayTitle

\* The body of setActivity(presenceData = {}, playback = true).
setActivityBody(args) ==
    /\ internalPresence' = IF Len(args) >= 1 THEN args[1] ELSE EmptyObject
    /\ playback' = IF Len(args) >= 2 THEN args[2] ELSE TRUE
    /\ sendData([clientId |-> ClientId,
                 presenceData |-> internalPresence',
                 trayTitle |-> trayTitle,
                 playback |-> playback'])
    /\ UNCHANGED trayTitle

\* The body of clearActivity, broken so that it keeps the tray title.
clearActivityKeepingTitle ==
    /\ internalPresence' = EmptyObject
    /\ sendData(ClearPayload)
    /\ UNCHANGED <<trayTitle, playback>>

\* The body of clearActivity().
clearActivityBody ==
    /\ internalPresence' = EmptyObject
    /\ trayTitle' = ""
    /\ sendData(ClearPayload)
    /\ UNCHANGED playback

\* The body of setTrayTitle, broken so that it sends the title at once.
setTrayTitleSending(args) ==
    /\ trayTitle' = IF Len(args) >= 1 THEN args[1] ELSE ""
    /\ sendData([clientId |-> ClientId,
                 presenceData |-> internalPresence,
                 trayTitle |-> trayTitle',
                 playback |-> playback])
    /\ UNCHANGED <<internalPresence, playback>>

\* The body of setTrayTitle(trayTitle = "").
setTrayTitleBody(args) ==
    /\ trayTitle' = IF Len(args) >= 1 THEN args[1] ELSE ""
    /\ UNCHANGED <<internalPresence, playback, sent, hostSeen>>

\* The test of the PreMiD_TabPriority listener, inverted.
LosesPriorityInverted(detail) == detail

\* if (!data.detail)
LosesPriority(detail) == ~detail

setActivity(args) ==
    /\ setActivityBody(args)
    /\ Logged("setActivity", args, Len(sent'))
    /\ UNCHANGED <<hostListening, settingsVars, eventVars, requestVars>>

clearActivity ==
    /\ clearActivityBody
    /\ Logged("clearActivity", <<>>, Len(sent'))
    /\ UNCHANGED <<hostListening, settingsVars, eventVars, requestVars>>

setTrayTitle(args) ==
    /\ setTrayTitleBody(args)
    /\ Logged("setTrayTitle", args, IF sent' = sent THEN 0 ELSE Len(sent'))
    /\ UNCHANGED <<hostListening, settingsVars, eventVars, requestVars>>

\* getActivity()
getActivity == internalPresence

\* A PreMiD_TabPriority event is delivered to the listener of the constructor.
TabPriority(detail) ==
    /\ IF LosesPriority(detail)
       THEN clearActivityBody
       ELSE UNCHANGED <<internalPresence, trayTitle, playback, sent, hostSeen>>
    /\ Logged("TabPriority", <<detail>>, IF sent' = sent THEN 0 ELSE Len(sent'))
    /\ UNCHANGED <<hostListening, settingsVars, eventVars, requestVars>>

\* The host starts or stops listening to PreMiD_UpdatePresence.
HostListens(b) ==
    /\ hostListening # b
    /\ hostListening' = b
    /\ UNCHANGED <<internalPresence, trayTitle, playback, sent, trace,
                   hostSeen, settingsVars, eventVars, requestVars>>

(***************************************************************************)
(* on(eventName, callback) of the Presence and of the iFrame bridge, and   *)
(* the events the host delivers.  The Presence bridge runs in the main     *)
(* frame and the iFrame bridge in a subordinate frame: each has a document *)
(* of its own.                                                             *)
(***************************************************************************)
Bridges == {"Presence", "iFrame"}

\* The names on(...) may be called with; "bogus" is no event of the bridge.
EventNames == {"UpdateData", "iFrameData", "bogus"}

\* The functions given as callbacks.
Callbacks == {"f", "g"}

\* The detail of a PreMiD_iFrameData event.
FrameData == {"'p'"}

\* this._events[eventName] = callback
SetEvent(table, eventName, callback) ==
    [n \in DOMAIN table \cup {eventName} |->
        IF n = eventName THEN callback ELSE table[n]]

\* The switch of on(...), broken so that its default case subscribes to the
\* event named.
NewListenersAnyName(bridge, eventName) ==
    IF bridge = "Presence" /\ eventName = "iFrameData"
    THEN <<[target |-> "main.window", type |-> "PreMiD_iFrameData",
            bridge |-> bridge, eventName |-> eventName]>>
    ELSE IF bridge = "Presence"
    THEN <<[target |-> "main.document", type |-> "PreMiD_UpdateData",
            bridge |-> bridge, eventName |-> eventName]>>
    ELSE IF eventName = "UpdateData"
    THEN <<[target |-> "frame.document", type |-> "PreMiD_UpdateData",
            bridge |-> bridge, eventName |-> eventName]>>
    ELSE <<>>

\* switch (eventName): the listener a call on(eventName, ...) of the bridge
\* adds, with the event target and type it listens to and the bridge and
\* eventName its closure holds; the empty sequence when it adds none.
\* Presence.on adds one for "UpdateData" (on document) and for "iFrameData"
\* (on window), and none in its default case; iFrame.on adds one for
\* "UpdateData" only.
NewListeners(bridge, eventName) ==
    IF bridge = "Presence" /\ eventName = "UpdateData"
    THEN <<[target |-> "main.document", type |-> "PreMiD_UpdateData",
            bridge |-> bridge, eventName |-> eventName]>>
    ELSE IF bridge = "Presence" /\ eventName = "iFrameData"
    THEN <<[target |-> "main.window", type |-> "PreMiD_iFrameData",
            bridge |-> bridge, eventName |-> eventName]>>
    ELSE IF bridge = "iFrame" /\ eventName = "UpdateData"
    THEN <<[target |-> "frame.document", type |-> "PreMiD_UpdateData",
            bridge |-> bridge, eventName |-> eventName]>>
    ELSE <<>>

\* on(eventName, callback) of the Presence or of the iFrame bridge: the
\* callback is stored, then the switch adds a listener or not.
on(bridge, eventName, callback) ==
    /\ Len(listeners) + Len(NewListeners(bridge, eventName)) <= MaxOn
    /\ _events' = [_events EXCEPT
                     ![bridge] = SetEvent(@, eventName, callback)]
    /\ listeners' = listeners \o NewListeners(bridge, eventName)
    /\ invoked' = [type |-> "on", bridge |-> bridge, eventName |-> eventName,
                   callback |-> callback]
    /\ UNCHANGED <<settingsVars, activityVars, requestVars>>

\* The listeners of an event target for an event type, in the order in which
\* they were added.
ListenersOf(target, type) ==
    SelectSeq(listeners, LAMBDA l : l.target = target /\ l.type = type)

\* The arguments a listener gives the callback: none for PreMiD_UpdateData,
\* data.detail for PreMiD_iFrameData.
CallbackArgs(type, detail) ==
    IF type = "PreMiD_iFrameData" THEN <<detail>> ELSE <<>>

\* An event of this type is dispatched on the target: each listener runs
\* this._events[eventName](...) with the table as it now is.
Dispatch(target, type, detail) ==
    /\ invoked' =
         [target |-> target, type |-> type,
          calls |-> [k \in 1..Len(ListenersOf(target, type)) |->
                       LET l == ListenersOf(target, type)[k]
                       IN [bridge |-> l.bridge,
                           callback |-> _events[l.bridge][l.eventName],
                           args |-> CallbackArgs(type, detail)]]]
    /\ UNCHANGED <<_events, listeners>>
    /\ UNCHANGED <<settingsVars, activityVars, requestVars>>

(***************************************************************************)
(* Requests answered by a reply event: getStrings, getPageletiable and     *)
(* iFrame.getUrl.  The values of this part are records of a JavaScript     *)
(* type and a text.                                                        *)
(***************************************************************************)
JSString(text) == [type |-> "string", text |-> text]

JSUndefined == [type |-> "undefined", text |-> ""]

JSNull == [type |-> "null", text |-> "null"]

\* window[letiable] when it is a string: a word, a numeral, and the JSON
\* text of a string.
StringGlobals == {JSString("hello"), JSString("123"), JSString("\"q\"")}

\* window[letiable] when it is not a string and JSON.stringify gives a text.
JSONGlobals ==
    {[type |-> "number", text |-> "123"], [type |-> "boolean", text |-> "true"],
     JSNull, [type |-> "object", text |-> "{}"]}

Globals == StringGlobals \cup JSONGlobals \cup {JSUndefined}

\* JSON.stringify(v): undefined for undefined, otherwise the JSON text, which
\* for a string is the string between double quotes (the strings stringified
\* here hold no character that is escaped).
JSONstringify(v) ==
    CASE v.type = "undefined" -> JSUndefined
      [] v.type = "string" -> JSString("\"" \o v.text \o "\"")
      [] OTHER -> JSString(v.text)

\* The values JSON.parse can return here.
JSONValues == JSONGlobals \cup {JSString("q")}

\* JSON.parse(text): the value of which text is the JSON text; a SyntaxError
\* is thrown when it is the JSON text of none.
IsJSON(text) == \E v \in JSONValues : JSONstringify(v).text = text

JSONparse(text) == CHOOSE v \in JSONValues : JSONstringify(v).text = text

\* The conversion of the argument of JSON.parse to a string: a string is
\* itself, null is "null".
StringOf(v) == v.text

\* The detail of the event the injected script dispatches: the global when it
\* is a string, JSON.stringify of it otherwise; a detail of undefined is the
\* default of CustomEvent, null.
PageletiableDetail(global) ==
    LET d == IF global.type = "string" THEN global ELSE JSONstringify(global)
    IN  IF d.type = "undefined" THEN JSNull ELSE d

\* detail of PreMiD_ReceiveExtensionData: { strings }.
ExtensionData ==
    {[strings |-> [type |-> "object", text |-> t]] : t \in {"s1", "s2"}}

\* detail of PreMiD_iFrameURL.
Urls == {JSString("u1"), JSString("u2")}

\* How the host answers a request event: during its dispatch, with a detail,
\* or not during its dispatch.
StringsReplies ==
    {[sync |-> FALSE]} \cup {[sync |-> TRUE, detail |-> d] : d \in ExtensionData}

UrlReplies ==
    {[sync |-> FALSE]} \cup {[sync |-> TRUE, detail |-> d] : d \in Urls}

\* The state the calls work on, as one record.
Doc == [calls |-> calls, registered |-> registered, scripts |-> scripts,
        requests |-> requests, delivery |-> delivery]

SetDoc(st) ==
    /\ calls' = st.calls
    /\ registered' = st.registered
    /\ scripts' = st.scripts
    /\ requests' = st.requests
    /\ delivery' = st.delivery

\* new Promise(...): a call and its pending promise.
NewCall(st, kind, global, sync) ==
    [st EXCEPT !.calls = Append(@, [kind |-> kind, global |-> global,
                                    sync |-> sync, state |-> "pending",
                                    value |-> JSUndefined])]

\* resolve(value): settles the promise when it is pending.
resolve(st, call, value) ==
    IF st.calls[call].state = "pending"
    THEN [st EXCEPT !.calls[call].state = "resolved",
                    !.calls[call].value = value]
    ELSE st

\* target.addEventListener(type, fn) (capture false when not given).
addEventListener(st, target, type, fn, capture) ==
    [st EXCEPT !.registered = Append(@, [target |-> target, type |-> type,
                                         fn |-> fn, capture |-> capture])]

\* target.removeEventListener(type, fn, capture): removes the listener with
\* this type, this function and this capture flag, if there is one.
removeEventListener(st, target, type, fn, capture) ==
    LET Keep(l) == ~(/\ l.target = target /\ l.type = type
                     /\ l.fn = fn /\ l.capture = capture)
    IN  [st EXCEPT !.registered = SelectSeq(@, Keep)]

\* let listener = function (detail) {...} of getStrings.
listener(st, call, detail) ==
    resolve(removeEventListener(st, "window", "PreMiD_ReceiveExtensionData",
                                [name |-> "listener", call |-> call], FALSE),
            call, detail.strings)

\* _listener of getPageletiable: JSON.parse may throw, and then nothing
\* after it runs.
PageletiableListener(st, call, detail) ==
    LET removed == [st EXCEPT !.scripts = @ \ {call}]
    IN  IF IsJSON(StringOf(detail))
        THEN removeEventListener(
                 resolve(removed, call, JSONparse(StringOf(detail))),
                 "window", "PreMiD_Pageletiable",
                 [name |-> "_listener", call |-> call], TRUE)
        ELSE removed

\* _listener of iFrame.getUrl.
UrlListener(st, call, detail) ==
    removeEventListener(resolve(st, call, detail),
                        "document", "PreMiD_iFrameURL",
                        [name |-> "_listener", call |-> call], TRUE)

\* A registered listener is called with an event.
Invoke(st, l, detail) ==
    LET call == l.fn.call
        s == [st EXCEPT !.delivery.invoked = Append(@, call)]
    IN  CASE l.type = "PreMiD_ReceiveExtensionData" -> listener(s, call, detail)
          [] l.type = "PreMiD_Pageletiable" ->
                 PageletiableListener(s, call, detail)
          [] l.type = "PreMiD_iFrameURL" -> UrlListener(s, call, detail)

IsRegistered(st, l) == \E i \in 1..Len(st.registered) : st.registered[i] = l

\* The listeners found at the dispatch are called in the order of their
\* addition, except those removed meanwhile.
RECURSIVE InvokeAll(_, _, _)
InvokeAll(st, ls, detail) ==
    IF ls = <<>> THEN st
    ELSE InvokeAll(IF IsRegistered(st, Head(ls))
                   THEN Invoke(st, Head(ls), detail) ELSE st,
                   Tail(ls), detail)

ListenersFor(st, target, type) ==
    LET Is(l) == l.target = target /\ l.type = type
    IN  SelectSeq(st.registered, Is)

\* dispatchEvent, broken so that only the listener added first is called.
dispatchEventFirstOnly(st, target, type, detail) ==
    LET found == ListenersFor(st, target, type)
    IN  InvokeAll([st EXCEPT !.delivery = [type |-> type, detail |-> detail,
                                           invoked |-> <<>>]],
                  IF found = <<>> THEN found ELSE <<Head(found)>>, detail)

\* target.dispatchEvent(new CustomEvent(type, {detail})) of a reply event.
dispatchEvent(st, target, type, detail) ==
    InvokeAll([st EXCEPT !.delivery = [type |-> type, detail |-> detail,
                                       invoked |-> <<>>]],
              ListenersFor(st, target, type), detail)

\* The reply event that answers a request event.
ReplyType(type) ==
    IF type = "PreMiD_RequestExtensionData"
    THEN "PreMiD_ReceiveExtensionData" ELSE "PreMiD_iFrameURL"

\* The dispatch of a request event, broken so that it is made twice.
DispatchRequestTwice(st, call, target, type, reply) ==
    LET sentTwice == [st EXCEPT !.requests =
                        @ \o <<[call |-> call, type |-> type],
                               [call |-> call, type |-> type]>>]
    IN  IF reply.sync
        THEN dispatchEvent(sentTwice, target, ReplyType(type), reply.detail)
        ELSE sentTwice

\* target.dispatchEvent(request): the host's listener gets the request; it
\* may dispatch its reply before dispatchEvent returns.
DispatchRequest(st, call, target, type, reply) ==
    LET sentOnce == [st EXCEPT !.requests =
                       Append(@, [call |-> call, type |-> type])]
    IN  IF reply.sync
        THEN dispatchEvent(sentOnce, target, ReplyType(type), reply.detail)
        ELSE sentOnce

\* The executor of getStrings, broken so that the request is dispatched
\* before the listener is added.
getStringsRequestingFirst(st, reply) ==
    LET call == Len(st.calls) + 1
        created == NewCall(st, "getStrings", JSUndefined, reply.sync)
        posted == [created EXCEPT !.requests =
                     Append(@, [call |-> call, type |-> "port.postMessage"])]
        requested == DispatchRequest(posted, call, "window",
                                     "PreMiD_RequestExtensionData", reply)
    IN  addEventListener(requested, "window", "PreMiD_ReceiveExtensionData",
                         [name |-> "arrow", call |-> call], FALSE)

\* The executor of the promise of getStrings: the message on the port, the
\* arrow function added as listener, the request event.
getStringsExecutor(st, reply) ==
    LET call == Len(st.calls) + 1
        created == NewCall(st, "getStrings", JSUndefined, reply.sync)
        posted == [created EXCEPT !.requests =
                     Append(@, [call |-> call, type |-> "port.postMessage"])]
        listening == addEventListener(posted, "window",
                                      "PreMiD_ReceiveExtensionData",
                                      [name |-> "arrow", call |-> call], FALSE)
    IN  DispatchRequest(listening, call, "window",
                        "PreMiD_RequestExtensionData", reply)

getStrings(reply) ==
    /\ Len(calls) < MaxCalls
    /\ SetDoc(getStringsExecutor(Doc, reply))
    /\ UNCHANGED <<settingsVars, activityVars, eventVars>>

\* The executor of the promise of getPageletiable: the listener is added,
\* the script is appended and, unless the page forbids inline scripts, runs
\* at once and dispatches PreMiD_Pageletiable.
getPageletiableExecutor(st, global, runs) ==
    LET call == Len(st.calls) + 1
        created == NewCall(st, "getPageletiable", global, runs)
        listening == addEventListener(created, "window", "PreMiD_Pageletiable",
                                      [name |-> "_listener", call |-> call],
                                      FALSE)
        appended == [listening EXCEPT !.scripts = @ \cup {call}]
    IN  IF runs
        THEN dispatchEvent(appended, "window", "PreMiD_Pageletiable",
                           PageletiableDetail(global))
        ELSE appended

getPageletiable(global, runs) ==
    /\ Len(calls) < MaxCalls
    /\ SetDoc(getPageletiableExecutor(Doc, global, runs))
    /\ UNCHANGED <<settingsVars, activityVars, eventVars>>

\* The executor of the promise of iFrame.getUrl.
getUrlExecutor(st, reply) ==
    LET call == Len(st.calls) + 1
        created == NewCall(st, "getUrl", JSUndefined, reply.sync)
        listening == addEventListener(created, "document", "PreMiD_iFrameURL",
                                      [name |-> "_listener", call |-> call],
                                      FALSE)
    IN  DispatchRequest(listening, call, "document", "PreMiD_GETiFrameURL",
                        reply)

getUrl(reply) ==
    /\ Len(calls) < MaxCalls
    /\ SetDoc(getUrlExecutor(Doc, reply))
    /\ UNCHANGED <<settingsVars, activityVars, eventVars>>

Requested(type) == \E i \in 1..Len(requests) : requests[i].type = type

\* The host, having got a request, dispatches PreMiD_ReceiveExtensionData on
\* window.
ReceiveExtensionData(detail) ==
    /\ Requested("PreMiD_RequestExtensionData")
    /\ SetDoc(dispatchEvent(Doc, "window", "PreMiD_ReceiveExtensionData",
                            detail))
    /\ UNCHANGED <<settingsVars, activityVars, eventVars>>

\* The host, having got a request, dispatches PreMiD_iFrameURL on document.
iFrameURL(detail) ==
    /\ Requested("PreMiD_GETiFrameURL")
    /\ SetDoc(dispatchEvent(Doc, "document", "PreMiD_iFrameURL", detail))
    /\ UNCHANGED <<settingsVars, activityVars, eventVars>>

(***************************************************************************)
(* The host, which owns the persisted collections.                         *)
(***************************************************************************)
HostAdd(key, id, value, hidden) ==
    /\ Len(storage[key]) < MaxRecords
    /\ storage' = [storage EXCEPT
                     ![key] = Append(@, [id |-> id, value |-> value,
                                         hidden |-> hidden])]
    /\ UNCHANGED <<metadata, gs, hs>>
    /\ UNCHANGED <<activityVars, eventVars, requestVars>>

HostSetValue(key, i, value) ==
    /\ i \in 1..Len(storage[key])
    /\ storage[key][i].value # value
    /\ storage' = [storage EXCEPT ![key][i].value = value]
    /\ UNCHANGED <<metadata, gs, hs>>
    /\ UNCHANGED <<activityVars, eventVars, requestVars>>

HostRemove(key) ==
    /\ Len(storage[key]) > 0
    /\ storage' = [storage EXCEPT ![key] = Tail(@)]
    /\ UNCHANGED <<metadata, gs, hs>>
    /\ UNCHANGED <<activityVars, eventVars, requestVars>>

(***************************************************************************)
(* Initial states.                                                         *)
(***************************************************************************)
HsIdle == [pc |-> "idle", op |-> "hideSetting", settings |-> <<>>,
           storageSettings |-> <<>>, errors |-> <<>>, state |-> "pending"]

\* The collection of another service that shares the storage.
OtherCollection == <<[id |-> "a", value |-> "'x'", hidden |-> FALSE]>>

InitSettings ==
    /\ storage = [k \in Keys |->
                    IF k = StorageKey(OtherService) THEN OtherCollection
                    ELSE <<>>]
    /\ gs = GsIdle
    /\ hs = HsIdle

InitActivity ==
    /\ internalPresence = <<>>
    /\ trayTitle = ""
    /\ playback = TRUE
    /\ sent = <<>>
    /\ trace = <<>>
    /\ hostListening = FALSE
    /\ hostSeen = 0

InitEvents ==
    /\ _events = [b \in Bridges |-> EmptyObject]
    /\ listeners = <<>>
    /\ invoked = [type |-> "none"]

InitRequests ==
    /\ calls = <<>>
    /\ registered = <<>>
    /\ scripts = {}
    /\ requests = <<>>
    /\ delivery = [type |-> "none"]

(***************************************************************************)
(* getSetting against a host that adds, changes and removes records.       *)
(***************************************************************************)
InitGetSetting ==
    /\ metadata \in Metadatas
    /\ InitSettings /\ InitActivity /\ InitEvents /\ InitRequests

NextGetSetting ==
    \/ \E id \in Ids : getSetting(id)
    \/ getSettingReturn
    \/ \E id \in RecordIds, v \in PValues :
         HostAdd(StorageKey(Service), id, v, FALSE)
    \/ \E i \in 1..MaxRecords, v \in PValues :
         HostSetValue(StorageKey(Service), i, v)
    \/ HostRemove(StorageKey(Service))

SpecGetSetting == InitGetSetting /\ [][NextGetSetting]_vars

(***************************************************************************)
(* hideSetting/showSetting against a host that adds and removes records.   *)
(***************************************************************************)
InitHideShow ==
    /\ metadata = [service |-> Service, hasSettings |-> TRUE,
                   settings |-> <<>>]
    /\ InitSettings /\ InitActivity /\ InitEvents /\ InitRequests

NextHideShow ==
    \/ \E settings \in HsInputs : hideSetting(settings)
    \/ \E settings \in HsInputs : showSetting(settings)
    \/ hideShowReturn
    \/ hideShowWritten
    \/ \E id \in RecordIds, h \in BOOLEAN :
         HostAdd(StorageKey(Service), id, "'x'", h)
    \/ HostRemove(StorageKey(Service))

SpecHideShow == InitHideShow /\ [][NextHideShow]_vars

(***************************************************************************)
(* hideSetting/showSetting alone: nothing else writes the storage.  The     *)
(* collection persisted for the service is any list of records with        *)
(* distinct ids.                                                            *)
(***************************************************************************)
UniqueCollections ==
    {c \in SeqUpTo([id : RecordIds, value : {"'x'"}, hidden : BOOLEAN],
                   MaxRecords) :
        \A i, j \in 1..Len(c) : c[i].id = c[j].id => i = j}

InitHideShowAlone ==
    /\ metadata = [service |-> Service, hasSettings |-> TRUE,
                   settings |-> <<>>]
    /\ \E c \in UniqueCollections :
         storage = [k \in Keys |->
                      IF k = StorageKey(OtherService) THEN OtherCollection
                      ELSE c]
    /\ gs = GsIdle
    /\ hs = HsIdle
    /\ InitActivity /\ InitEvents /\ InitRequests

NextHideShowAlone ==
    \/ \E settings \in HsInputs : hideSetting(settings)
    \/ \E settings \in HsInputs : showSetting(settings)
    \/ hideShowReturn
    \/ hideShowWritten

SpecHideShowAlone == InitHideShowAlone /\ [][NextHideShowAlone]_vars

(***************************************************************************)
(* The activity of a constructed bridge.                                   *)
(***************************************************************************)
InitActivityBridge ==
    /\ metadata = [service |-> Service, hasSettings |-> FALSE,
                   settings |-> <<>>]
    /\ InitSettings /\ InitActivity /\ InitEvents /\ InitRequests

NextActivity ==
    \/ \E args \in SetActivityArgs : setActivity(args)
    \/ clearActivity
    \/ \E args \in SetTrayTitleArgs : setTrayTitle(args)
    \/ \E detail \in TabPriorityDetails : TabPriority(detail)
    \/ \E b \in BOOLEAN : HostListens(b)

SpecActivity == InitActivityBridge /\ [][NextActivity]_vars

(***************************************************************************)
(* Subscriptions and the events delivered to them.                         *)
(***************************************************************************)
InitSubscriptions ==
    /\ metadata = [service |-> Service, hasSettings |-> FALSE,
                   settings |-> <<>>]
    /\ InitSettings /\ InitActivity /\ InitEvents /\ InitRequests

NextSubscriptions ==
    \/ \E b \in Bridges, n \in EventNames, c \in Callbacks : on(b, n, c)
    \/ Dispatch("main.document", "PreMiD_UpdateData", Undefined)
    \/ Dispatch("frame.document", "PreMiD_UpdateData", Undefined)
    \/ \E d \in FrameData : Dispatch("main.window", "PreMiD_iFrameData", d)

SpecSubscriptions == InitSubscriptions /\ [][NextSubscriptions]_vars

(***************************************************************************)
(* The requests of a Presence and an iFrame bridge, and the host's         *)
(* replies.                                                                *)
(***************************************************************************)
InitRequestsBridge ==
    /\ metadata = [service |-> Service, hasSettings |-> TRUE,
                   settings |-> <<>>]
    /\ InitSettings /\ InitActivity /\ InitEvents /\ InitRequests

NextRequests ==
    \/ \E reply \in StringsReplies : getStrings(reply)
    \/ \E global \in Globals, runs \in BOOLEAN : getPageletiable(global, runs)
    \/ \E reply \in UrlReplies : getUrl(reply)
    \/ \E detail \in ExtensionData : ReceiveExtensionData(detail)
    \/ \E detail \in Urls : iFrameURL(detail)

SpecRequests == InitRequestsBridge /\ [][NextRequests]_vars

(***************************************************************************)
(* Claims about getSetting.                                                *)
(***************************************************************************)
\* The step in which the storage read of getSetting returns.
GsReturns == gs.pc = "reading" /\ gs'.pc = "returned"

\* The collection the pending getSetting reads.
GsCollection == storage[StorageKey(metadata.service)]

\* The descriptors of metadata.settings with the given id.
Declared(id) ==
    IF metadata.hasSettings
    THEN {j \in 1..Len(metadata.settings) : metadata.settings[j].id = id}
    ELSE {}

\* C1: a setting id with no persisted record that metadata.settings declares
\* with a default value: getSetting(id) resolves with that declared default.
C1_DefaultResolves ==
    [][(/\ GsReturns
        /\ find(GsCollection, gs.setting) = 0
        /\ \E j \in Declared(gs.setting) :
               metadata.settings[j].value # Undefined)
       => /\ gs'.state = "resolved"
          /\ \E j \in Declared(gs.setting) :
                 gs'.value = metadata.settings[j].value]_vars

\* C2: a setting id with a persisted record: getSetting(id) resolves with the
\* value of that record (the first with that id), whatever the metadata
\* declares, and also when the value is false, 0 or the empty string.
C2_PersistedWins ==
    [][(GsReturns /\ find(GsCollection, gs.setting) # 0)
       => /\ gs'.state = "resolved"
          /\ gs'.value = GsCollection[find(GsCollection, gs.setting)].value
          /\ ~gs'.threw]_vars

\* C2, reached: getSetting resolved with the persisted value false of a
\* setting whose declared default is another value.
C2_Witness ==
    /\ gs.pc = "returned"
    /\ gs.state = "resolved"
    /\ gs.value = "false"
    /\ find(GsCollection, gs.setting) # 0
    /\ GsCollection[find(GsCollection, gs.setting)].value = gs.value
    /\ \E j \in Declared(gs.setting) : metadata.settings[j].value = "'d'"

\* C3: a setting id with no persisted record and no descriptor in the
\* metadata, with or without a settings list: once the storage read returns,
\* getSetting(id) has rejected; it is not pending and has not resolved.
C3_UnknownRejects ==
    [][(/\ GsReturns
        /\ find(GsCollection, gs.setting) = 0
        /\ Declared(gs.setting) = {})
       => gs'.state = "rejected"]_vars

(***************************************************************************)
(* Claims about hideSetting / showSetting.                                 *)
(***************************************************************************)
\* The steps in which the storage read and the storage write of a
\* hideSetting/showSetting call return.
HsReturns == hs.pc = "reading" /\ hs'.pc = "writing"

HsWrites == hs.pc = "writing" /\ hs'.pc = "done"

\* The collection the pending hideSetting/showSetting reads and writes.
HsCollection == storage[StorageKey(metadata.service)]

\* The elements of the list given that have no record in the collection.
IsMissing(id) == find(HsCollection, id) = 0

MissingIn(list) == SelectSeq(list, IsMissing)

Elements(list) == {list[k] : k \in 1..Len(list)}

\* C4: hideSetting (showSetting) with a list of which some ids have a record
\* and some have none: the call rejects with one error per element of the
\* list that has no record (in the order of the list) and none for the
\* others, and the collection is written back as it was read with
\* hidden = true (false) on the record of every id that was found.
C4_PartialFailure ==
    /\ [][(/\ HsReturns
           /\ \E id \in Elements(Normalize(hs.settings)) : IsMissing(id)
           /\ \E id \in Elements(Normalize(hs.settings)) : ~IsMissing(id))
          => LET list == Normalize(hs.settings)
                 missing == MissingIn(list)
             IN /\ hs'.state = "rejected"
                /\ Len(hs'.errors) = Len(missing)
                /\ \A k \in 1..Len(missing) :
                       hs'.errors[k] = ErrorMessage(missing[k])
                /\ Len(hs'.storageSettings) = Len(HsCollection)
                /\ \A k \in 1..Len(HsCollection) :
                       /\ hs'.storageSettings[k].id = HsCollection[k].id
                       /\ hs'.storageSettings[k].value = HsCollection[k].value
                /\ \A id \in Elements(list) :
                       ~IsMissing(id) =>
                           hs'.storageSettings[find(HsCollection, id)].hidden
                               = HiddenFlag(hs.op)]_vars
    /\ [][HsWrites
          => /\ storage'[StorageKey(metadata.service)] = hs.storageSettings
             /\ (hs.state = "rejected" =>
                     hs'.state = "rejected" /\ hs'.errors = hs.errors)]_vars

\* C4, reached: hideSetting(["a", "0"]) has rejected with one error, for "0",
\* and the collection written holds "a" with hidden = true.
C4_Witness ==
    /\ hs.pc = "done"
    /\ hs.op = "hideSetting"
    /\ hs.settings = [isArray |-> TRUE, ids |-> <<"a", "0">>]
    /\ hs.state = "rejected"
    /\ hs.errors = <<ErrorMessage("0")>>
    /\ find(HsCollection, "a") # 0
    /\ HsCollection[find(HsCollection, "a")].hidden

(***************************************************************************)
(* Claims about the activity.                                              *)
(***************************************************************************)
\* The presenceData a call of setActivity with these arguments is given.
GivenPresence(args) == IF Len(args) >= 1 THEN args[1] ELSE EmptyObject

\* The step that adds this call or event to the trace.
Does(op, args) ==
    /\ Len(trace') = Len(trace) + 1
    /\ trace'[Len(trace')].op = op
    /\ trace'[Len(trace')].args = args

\* C5: after any sequence of setActivity, clearActivity and setTrayTitle calls
\* (and tab-priority events) that ends in setActivity(s), getActivity()
\* equals s, whether or not the host is listening.
C5_RoundTrip ==
    (trace # <<>> /\ trace[Len(trace)].op = "setActivity")
    => getActivity = GivenPresence(trace[Len(trace)].args)

\* C5, reached: with no host listening, setActivity({state}) after
\* setActivity({state, details}) and a setTrayTitle; getActivity() has the
\* state only.
C5_Witness ==
    /\ ~hostListening
    /\ hostSeen = 0
    /\ Len(trace) = 3
    /\ trace[1].op = "setActivity"
    /\ trace[1].args = <<[state |-> "'s'", details |-> "'d'"]>>
    /\ trace[2].op = "setTrayTitle"
    /\ trace[3].op = "setActivity"
    /\ trace[3].args = <<[state |-> "'s'"]>>
    /\ getActivity = [state |-> "'s'"]

\* C6: clearActivity called twice in a row, from any reachable state,
\* dispatches two update-presence events, both with the detail
\* {presenceData: {}, playback: false, hidden: true}, and after each call the
\* snapshot and the tray title are empty.
C6_ClearIdempotent ==
    /\ (trace # <<>> /\ trace[Len(trace)].op = "clearActivity")
       => /\ internalPresence = EmptyObject
          /\ trayTitle = ""
          /\ trace[Len(trace)].n = Len(sent)
          /\ sent[Len(sent)] = ClearPayload
    /\ \A i \in 1..(Len(trace) - 1) :
           (trace[i].op = "clearActivity" /\ trace[i + 1].op = "clearActivity")
           => /\ trace[i].n >= 1
              /\ trace[i + 1].n = trace[i].n + 1
              /\ sent[trace[i].n] = ClearPayload
              /\ sent[trace[i + 1].n] = sent[trace[i].n]

\* C6, reached: a title and an activity were set, then clearActivity was
\* called twice; three events were dispatched.
C6_Witness ==
    /\ Len(trace) = 3
    /\ trace[1].op = "setActivity"
    /\ trace[1].args = <<[state |-> "'s'"], TRUE>>
    /\ trace[2].op = "clearActivity"
    /\ trace[3].op = "clearActivity"
    /\ Len(sent) = 3
    /\ sent[2] = ClearPayload /\ sent[3] = ClearPayload
    /\ internalPresence = EmptyObject /\ trayTitle = ""

\* C7: a tab-priority event with detail false empties the snapshot and
\* dispatches exactly one update-presence event, with hidden: true; one with
\* detail true changes no state of the bridge and dispatches nothing.
C7_TabPriority ==
    /\ [][Does("TabPriority", <<FALSE>>)
          => /\ internalPresence' = EmptyObject
             /\ Len(sent') = Len(sent) + 1
             /\ SubSeq(sent', 1, Len(sent)) = sent
             /\ "hidden" \in DOMAIN sent'[Len(sent')]
             /\ sent'[Len(sent')].hidden = TRUE]_vars
    /\ [][Does("TabPriority", <<TRUE>>)
          => UNCHANGED <<internalPresence, trayTitle, playback, sent,
                         hostSeen>>]_vars

\* C7, reached: an activity was set, and a tab-priority event with detail
\* false has emptied it; the second event dispatched is the clearing one.
C7_Witness ==
    /\ Len(trace) = 2
    /\ trace[1].op = "setActivity"
    /\ trace[1].args = <<[state |-> "'s'"]>>
    /\ trace[2].op = "TabPriority"
    /\ trace[2].args = <<FALSE>>
    /\ internalPresence = EmptyObject
    /\ Len(sent) = 2
    /\ sent[2] = ClearPayload

\* The title a call of setTrayTitle with these arguments stores.
GivenTitle(args) == IF Len(args) >= 1 THEN args[1] ELSE ""

\* Entry j of the trace is the first after entry i that dispatched an event,
\* and no setTrayTitle lies between them.
NextSendAfter(i, j) ==
    /\ i < j
    /\ trace[j].n # 0
    /\ \A k \in (i + 1)..(j - 1) :
           trace[k].n = 0 /\ trace[k].op # "setTrayTitle"

\* setTrayTitle dispatches nothing and leaves the snapshot and the playback
\* flag as they are.
TrayTitleSendsNothing ==
    \A args \in SetTrayTitleArgs :
        Does("setTrayTitle", args)
        => /\ trayTitle' = GivenTitle(args)
           /\ UNCHANGED <<internalPresence, playback, sent, hostSeen>>

\* C8, as claimed: setTrayTitle(t) dispatches nothing and leaves the snapshot
\* and the playback flag unchanged, and the next update-presence event
\* carries the title t, whether setActivity or clearActivity dispatches it.
C8_TitleInNextSend ==
    \A i \in 1..Len(trace) :
        trace[i].op = "setTrayTitle"
        => /\ trace[i].n = 0
           /\ \A j \in 1..Len(trace) :
                  NextSendAfter(i, j)
                  => /\ "trayTitle" \in DOMAIN sent[trace[j].n]
                     /\ sent[trace[j].n].trayTitle = GivenTitle(trace[i].args)

\* What holds of the trace instead: the title is carried by the next event
\* if setActivity dispatches it; an event that clears the activity carries
\* no title, and the setActivity events after it carry the empty title until
\* setTrayTitle is called again.
TitleInNextSetActivity ==
    \A i \in 1..Len(trace) :
        trace[i].op = "setTrayTitle"
        => /\ trace[i].n = 0
           /\ \A j \in 1..Len(trace) :
                  NextSendAfter(i, j)
                  => IF trace[j].op = "setActivity"
                     THEN sent[trace[j].n].trayTitle = GivenTitle(trace[i].args)
                     ELSE /\ sent[trace[j].n] = ClearPayload
                          /\ "trayTitle" \notin DOMAIN sent[trace[j].n]
                          /\ \A k \in 1..Len(trace) :
                                 (NextSendAfter(j, k)
                                  /\ trace[k].op = "setActivity")
                                 => sent[trace[k].n].trayTitle = ""

\* C8, amended: setTrayTitle(t) dispatches nothing and leaves the snapshot
\* and the playback flag unchanged; the next update-presence event carries t
\* if setActivity dispatches it, while one that clearActivity dispatches
\* carries no title and discards t.
C8_TitleInNextSetActivity ==
    [][TrayTitleSendsNothing]_vars /\ []TitleInNextSetActivity

\* C8, reached: setTrayTitle('t'), then clearActivity, then setActivity: the
\* clearing event has no title and the event of setActivity the empty one.
C8_Witness ==
    /\ Len(trace) = 3
    /\ trace[1].op = "setTrayTitle"
    /\ trace[1].args = <<"'t'">>
    /\ trace[2].op = "clearActivity"
    /\ trace[3].op = "setActivity"
    /\ Len(sent) = 2
    /\ sent[1] = ClearPayload
    /\ sent[2].trayTitle = ""

(***************************************************************************)
(* Claims about on(...).                                                   *)
(***************************************************************************)
\* The event names the switch of on(...) knows.
Recognised == {"UpdateData", "iFrameData"}

EventTypes == {"PreMiD_UpdateData", "PreMiD_iFrameData"}

\* The invocations among those of the last event that a bridge's listeners
\* made.
CallsOf(bridge) ==
    SelectSeq(invoked.calls, LAMBDA c : c.bridge = bridge)

\* The last event dispatched is the one a subscription of the bridge to this
\* event name is about.
IsOccurrence(bridge, eventName) ==
    /\ invoked.type \in EventTypes
    /\ \/ /\ bridge = "Presence" /\ eventName = "UpdateData"
          /\ invoked.target = "main.document"
          /\ invoked.type = "PreMiD_UpdateData"
       \/ /\ bridge = "Presence" /\ eventName = "iFrameData"
          /\ invoked.target = "main.window"
          /\ invoked.type = "PreMiD_iFrameData"
       \/ /\ bridge = "iFrame" /\ eventName = "UpdateData"
          /\ invoked.target = "frame.document"
          /\ invoked.type = "PreMiD_UpdateData"

\* C9: after on(E, cb) was called any number of times (at least once) for
\* the event name E on a bridge, an occurrence of E invokes exactly one
\* callback, exactly once: the one registered last.
C9_OneCallbackOnce ==
    \A b \in Bridges, e \in Recognised :
        (e \in DOMAIN _events[b] /\ IsOccurrence(b, e))
        => /\ Len(CallsOf(b)) = 1
           /\ CallsOf(b)[1].callback = _events[b][e]

\* The step is a call on(name, ...) with a name the switch does not know.
OnUnrecognised ==
    /\ invoked' # invoked
    /\ invoked'.type = "on"
    /\ invoked'.eventName \notin Recognised

\* C10, as claimed: on(name, cb) with a name other than UpdateData or
\* iFrameData leaves the event table and the listeners as they were.
C10_NothingChanges ==
    [][OnUnrecognised
       => /\ _events' = _events
          /\ listeners' = listeners]_vars

\* Every callback an event invokes is the one stored under an event name the
\* switch knows, in the table of the bridge whose listener invoked it.
InvokedAreSubscribed ==
    invoked.type \in EventTypes
    => \A k \in 1..Len(invoked.calls) :
           \E e \in Recognised \cap DOMAIN _events[invoked.calls[k].bridge] :
               invoked.calls[k].callback = _events[invoked.calls[k].bridge][e]

\* C10, amended: on(name, cb) with a name other than UpdateData or iFrameData
\* adds no listener, and no later event invokes cb on account of it; it does
\* store cb in the event table under that name, and changes nothing else of
\* the table.
C10_NoSubscription ==
    /\ [][OnUnrecognised
          => /\ listeners' = listeners
             /\ _events' =
                  [_events EXCEPT
                     ![invoked'.bridge] =
                        SetEvent(@, invoked'.eventName, invoked'.callback)]
             /\ \A e \in Recognised :
                    /\ (e \in DOMAIN _events'[invoked'.bridge])
                         = (e \in DOMAIN _events[invoked'.bridge])
                    /\ e \in DOMAIN _events[invoked'.bridge]
                         => _events'[invoked'.bridge][e]
                              = _events[invoked'.bridge][e]]_vars
    /\ []InvokedAreSubscribed

\* C10, reached: on("UpdateData", f) and on("bogus", g) were called on the
\* Presence bridge; there is one listener, g is in the table, and the
\* PreMiD_UpdateData event invoked f alone.
C10_Witness ==
    /\ DOMAIN _events["Presence"] = {"UpdateData", "bogus"}
    /\ _events["Presence"]["UpdateData"] = "f"
    /\ _events["Presence"]["bogus"] = "g"
    /\ Len(listeners) = 1
    /\ invoked.type = "PreMiD_UpdateData"
    /\ invoked.target = "main.document"
    /\ Len(invoked.calls) = 1
    /\ invoked.calls[1].callback = "f"

(***************************************************************************)
(* Claims about the requests.                                              *)
(***************************************************************************)
CallIds == 1..Len(calls)

\* The call has a listener of this type registered.
HasListenerIn(ls, c, type) ==
    \E i \in 1..Len(ls) : ls[i].type = type /\ ls[i].fn.call = c

HasListener(c, type) == HasListenerIn(registered, c, type)

ListenersOfType(type) ==
    {i \in 1..Len(registered) : registered[i].type = type}

PendingOf(kind) ==
    {c \in CallIds : calls[c].kind = kind /\ calls[c].state = "pending"}

\* The step delivers a reply event of this type: the host dispatches it, or
\* a call is made to which the reply comes during the dispatch.
IsReplyStep(type) ==
    /\ delivery'.type = type
    /\ \/ Len(calls') = Len(calls)
       \/ calls'[Len(calls')].sync

\* C11: the listener of getStrings is one-shot: a getStrings call that has
\* resolved has no PreMiD_ReceiveExtensionData listener registered, so the
\* number of registered PreMiD_ReceiveExtensionData listeners is the number
\* of getStrings calls still pending.
C11_OneShot ==
    /\ \A c \in CallIds :
         (calls[c].kind = "getStrings" /\ calls[c].state = "resolved")
           => ~HasListener(c, "PreMiD_ReceiveExtensionData")
    /\ Cardinality(ListenersOfType("PreMiD_ReceiveExtensionData"))
         = Cardinality(PendingOf("getStrings"))

\* C12, as claimed: a reply resolves only the earliest pending getStrings
\* call; a call made after another that is still pending stays pending.
C12_EarliestOnly ==
    [][IsReplyStep("PreMiD_ReceiveExtensionData") =>
         \A c \in CallIds :
           (/\ calls[c].kind = "getStrings"
            /\ calls[c].state = "pending"
            /\ calls'[c].state = "resolved")
             => \A b \in 1..(c - 1) :
                  ~(calls[b].kind = "getStrings"
                    /\ calls[b].state = "pending")]_vars

\* C12, amended: a reply resolves every getStrings call that is pending when
\* it is delivered, each with the strings of that reply; no getStrings call
\* is pending after a reply, and the calls resolved before keep their value.
C12_EveryPending ==
    [][IsReplyStep("PreMiD_ReceiveExtensionData") =>
         \A c \in 1..Len(calls') :
           calls'[c].kind = "getStrings" =>
             /\ calls'[c].state = "resolved"
             /\ IF c \in CallIds /\ calls[c].state = "resolved"
                THEN calls'[c].value = calls[c].value
                ELSE calls'[c].value = delivery'.detail.strings]_vars

\* Two getStrings calls, neither answered during its dispatch, are resolved
\* with the strings of one reply, which invoked the listeners of both.
C12_Witness ==
    /\ Len(calls) = 2
    /\ \A c \in CallIds :
         /\ calls[c].kind = "getStrings"
         /\ ~calls[c].sync
         /\ calls[c].state = "resolved"
         /\ calls[c].value = delivery.detail.strings
    /\ delivery.invoked = <<1, 2>>

\* C13: getPageletiable resolves with a value equal to the page's global,
\* for every global that is a string and every global that is not a string
\* and has a JSON text (the injected script having run).
C13_RoundTrip ==
    \A c \in CallIds :
      (/\ calls[c].kind = "getPageletiable"
       /\ calls[c].sync
       /\ calls[c].global \in StringGlobals \cup JSONGlobals)
        => /\ calls[c].state = "resolved"
           /\ calls[c].value = calls[c].global

\* C14: once the PreMiD_Pageletiable event of a getPageletiable call has
\* fired, the script element the call injected is not in the document and
\* the call's listener is not registered; an event invokes the listener of
\* one call only.
C14_NothingRemains ==
    /\ \A c \in CallIds :
         (calls[c].kind = "getPageletiable" /\ calls[c].sync)
           => /\ c \notin scripts
              /\ ~HasListener(c, "PreMiD_Pageletiable")
    /\ delivery.type = "PreMiD_Pageletiable" => Len(delivery.invoked) = 1

\* C15: a getUrl call that has resolved has no PreMiD_iFrameURL listener
\* registered: the PreMiD_iFrameURL listeners are those of the getUrl calls
\* still pending.
C15_OneShot ==
    /\ \A c \in CallIds :
         (calls[c].kind = "getUrl" /\ calls[c].state = "resolved")
           => ~HasListener(c, "PreMiD_iFrameURL")
    /\ Cardinality(ListenersOfType("PreMiD_iFrameURL"))
         = Cardinality(PendingOf("getUrl"))

\* The request event and the reply event of getStrings and of getUrl.
RequestOf(kind) ==
    IF kind = "getStrings" THEN "PreMiD_RequestExtensionData"
    ELSE "PreMiD_GETiFrameURL"

ReplyOf(kind) == ReplyType(RequestOf(kind))

\* How many times the request event of the call was dispatched.
RequestCount(rs, kind, c) ==
    Cardinality({i \in 1..Len(rs) :
                   rs[i].call = c /\ rs[i].type = RequestOf(kind)})

\* C16: a getStrings or getUrl call to which no reply event is delivered
\* stays pending: a call not answered during its dispatch is pending when it
\* returns; a step that delivers no reply event of its type leaves it as it
\* is (nothing else resolves or rejects it); as long as it is pending its
\* listener is registered; and its request event is dispatched exactly once.
C16_PendingUntilReply ==
    [][\A c \in 1..Len(calls') :
         calls'[c].kind \in {"getStrings", "getUrl"} =>
           /\ RequestCount(requests', calls'[c].kind, c) = 1
           /\ calls'[c].state = "pending"
                => HasListenerIn(registered', c, ReplyOf(calls'[c].kind))
           /\ ~IsReplyStep(ReplyOf(calls'[c].kind)) =>
                IF c \in CallIds THEN calls'[c] = calls[c]
                ELSE calls'[c].state = "pending"]_vars

\* A getStrings and a getUrl call have been made, no reply event has been
\* delivered, and both are pending.
C16_Witness ==
    /\ delivery.type = "none"
    /\ Len(calls) = 2
    /\ calls[1].kind = "getStrings" /\ calls[1].state = "pending"
    /\ calls[2].kind = "getUrl" /\ calls[2].state = "pending"
    /\ HasListener(1, "PreMiD_ReceiveExtensionData")
    /\ HasListener(2, "PreMiD_iFrameURL")

\* C20: the reply listener is added before the request is dispatched (before
\* the script is appended): a reply that comes during the dispatch invokes
\* the listener of the call being made; getStrings and getUrl are resolved
\* with it, and the listener of getPageletiable gets the detail the script
\* built, removes the script and resolves when the detail is a JSON text.
C20_SyncReplyReceived ==
    [][(Len(calls') = Len(calls) + 1 /\ calls'[Len(calls')].sync) =>
         LET c == Len(calls')
             new == calls'[c]
         IN /\ \E i \in 1..Len(delivery'.invoked) : delivery'.invoked[i] = c
            /\ new.kind = "getStrings" =>
                 /\ new.state = "resolved"
                 /\ new.value = delivery'.detail.strings
            /\ new.kind = "getUrl" =>
                 /\ new.state = "resolved"
                 /\ new.value = delivery'.detail
            /\ new.kind = "getPageletiable" =>
                 /\ delivery'.detail = PageletiableDetail(new.global)
                 /\ c \notin scripts'
                 /\ IsJSON(StringOf(delivery'.detail))
                      => new.state = "resolved"]_vars

\* A getStrings call was answered during the dispatch of its request and is
\* resolved with the strings of that reply.
C20_Witness ==
    /\ Len(calls) = 1
    /\ calls[1].kind = "getStrings"
    /\ calls[1].sync
    /\ calls[1].state = "resolved"
    /\ delivery.type = "PreMiD_ReceiveExtensionData"
    /\ delivery.invoked = <<1>>
    /\ calls[1].value = delivery.detail.strings

\* C17: the result of hideSetting/showSetting is reported only once the
\* write of the collection has completed: the promise is neither resolved
\* nor rejected while the write is still to be requested or under way.
C17_ResultAfterWrite ==
    hs.state \in {"resolved", "rejected"} => hs.pc = "done"
\* The ids named by the pending hideSetting/showSetting.
HsNamed == Elements(Normalize(hs.settings))

\* hideSetting(list) and then showSetting(list) on a collection: what both
\* writes leave.
ShowAfterHide(coll, list) ==
    forEach(forEach(coll, <<>>, list, TRUE).storageSettings, <<>>, list,
            FALSE).storageSettings

\* C18: with nothing else writing the storage, the write of hideSetting
\* (showSetting) leaves every other storage key as it was and keeps the
\* number and order of the service's records and every record's id and
\* value; the hidden flag is true (false) on the records whose id was named
\* and is unchanged on every other record.  Hence showSetting(ids) after
\* hideSetting(ids) leaves the named records with hidden = false and every
\* other record as it was.
C18_OnlyHiddenOfNamed ==
    [][HsWrites =>
         LET key == StorageKey(metadata.service)
             old == storage[key]
             new == storage'[key]
         IN /\ \A k \in Keys \ {key} : storage'[k] = storage[k]
            /\ Len(new) = Len(old)
            /\ \A i \in 1..Len(old) :
                 /\ new[i].id = old[i].id
                 /\ new[i].value = old[i].value
                 /\ new[i].hidden = IF old[i].id \in HsNamed
                                    THEN HiddenFlag(hs.op)
                                    ELSE old[i].hidden
            /\ \A settings \in HsInputs :
                 LET both == ShowAfterHide(new, Normalize(settings))
                 IN /\ Len(both) = Len(new)
                    /\ \A i \in 1..Len(new) :
                         /\ both[i].id = new[i].id
                         /\ both[i].value = new[i].value
                         /\ both[i].hidden =
                              IF new[i].id \in Elements(Normalize(settings))
                              THEN FALSE ELSE new[i].hidden]_vars

\* A showSetting that named the second of two records has written: the named
\* record is shown, the other is still hidden, and the other service's
\* collection is as it was.
C18_Witness ==
    /\ hs.pc = "done"
    /\ hs.op = "showSetting"
    /\ hs.settings = [isArray |-> TRUE, ids |-> <<"b">>]
    /\ hs.state = "resolved"
    /\ HsCollection = <<[id |-> "a", value |-> "'x'", hidden |-> TRUE],
                        [id |-> "b", value |-> "'x'", hidden |-> FALSE]>>
    /\ storage[StorageKey(OtherService)] = OtherCollection

\* C19: the write of hideSetting/showSetting stores the collection that was
\* read, as patched, whatever the collection has become since the read: a
\* record the host added or removed between the read and the write is not
\* in (is back in) the collection after the write.
C19_WriteBackOfTheRead ==
    [][HsWrites =>
         /\ storage'[StorageKey(metadata.service)] = hs.storageSettings
         /\ Len(HsCollection) # Len(hs.storageSettings)
              => Len(storage'[StorageKey(metadata.service)])
                   # Len(HsCollection)]_vars

\* The write is pending and the host has added a record since the read: the
\* collection in storage has a record that the one about to be written
\* lacks.
C19_Witness ==
    /\ hs.pc = "writing"
    /\ Len(HsCollection) > Len(hs.storageSettings)

====
